---------------------------- MODULE Spec2Model ----------------------------
(***************************************************************************)
(* Model of the two USAspending pipelines:                                 *)
(*   src/usaspending_doi.py  weekly pipeline: get_week_ranges,             *)
(*                           fetch_award_history, process_results, main    *)
(*   src/usaspending_ees.py  personnel pipeline: fetch_personnel_spending  *)
(*                                                                         *)
(* The externals the code calls (requests.post, time.sleep, DataFrame      *)
(* .to_csv) are recorded in the event log `calls`, the way a mocked        *)
(* upstream and filesystem would record them.                              *)
(***************************************************************************)
EXTENDS Integers, Sequences, FiniteSets, TLC

VARIABLES
    \* get_week_ranges (generator)
    gstart,          \* argument start_date, a date string
    gend,            \* argument end_date, a date string
    gcur,            \* local `current` (a datetime), <<>> before the body runs
    gout,            \* the pairs yielded so far
    gpc,             \* "idle" | "start" | "loop" | "done"
    \* fetch_award_history / fetch_personnel_spending
    variant,         \* "doi" | "ees": which of the two fetchers runs
    fargs,           \* <<start_date, end_date>> of the running call
    feed,            \* the upstream during the call: [size, seed, faulty]
    page,            \* local `page`
    all_results,     \* local `all_results`
    total_entries,   \* local `total_entries` (ees only)
    resp,            \* the response of the last requests.post
    fpc,             \* "idle" | "request" | "got" | "ret" | "raised"
    pages200,        \* history: the result lists of the status-200 responses
    calls,           \* event log of requests.post / time.sleep / to_csv
    \* usaspending_doi.main
    mpc,             \* position of main; "keyerror" / "oserror": died of it
    busyFrom,        \* upstream: first week whose feed may hold records
    week_num,        \* loop variable of main
    total_weeks,     \* local `total_weeks`
    data,            \* local `data`
    all_data,        \* local `all_data` (list of DataFrames)
    chunkData,       \* history: what fetch_award_history returned, per chunk
    aborted,         \* history: the chunks whose fetch an error ended
    final_df,        \* local `final_df`
    category_summary \* local `category_summary`

vars == <<gstart, gend, gcur, gout, gpc, variant, fargs, feed, page,
          all_results, total_entries, resp, fpc, pages200, calls, mpc,
          busyFrom, week_num, total_weeks, data, all_data, chunkData,
          aborted, final_df, category_summary>>

gvars == <<gstart, gend, gcur, gout, gpc>>
fvars == <<variant, fargs, feed, page, all_results, total_entries, resp, fpc,
           pages200>>
mvars == <<mpc, busyFrom, week_num, total_weeks, data, all_data, chunkData,
           aborted>>
avars == <<final_df, category_summary>>

(***************************************************************************)
(* Bounds of the model.                                                    *)
(***************************************************************************)
\* get_week_ranges is tried on every interval of 1 .. MaxSpan + 1 days.
MaxSpan == 15
\* A standalone fetch sees feeds of up to MaxFullPages full pages and a rest.
MaxFullPages == 2
\* In a run of main, at most this many consecutive weeks have records.
MaxDataWeeks == 2
\* The aggregation is tried on every table of up to MaxRows rows.
MaxRows == 2

(***************************************************************************)
(* Optional values: None is Python's None / pandas' NaN, Some(x) a value.  *)
(***************************************************************************)
None == <<>>
Some(x) == <<x>>
Val(o) == o[1]

Min(a, b) == IF a <= b THEN a ELSE b

(***************************************************************************)
(* Calendar dates.  A date string 'YYYY-MM-DD' is the record [y, m, d];    *)
(* a datetime is its proleptic Gregorian day number.                       *)
(***************************************************************************)
Date(yy, mm, dd) == [y |-> yy, m |-> mm, d |-> dd]

\* datetime.strptime(s, '%Y-%m-%d')
strptime(s) ==
    LET yy  == IF s.m <= 2 THEN s.y - 1 ELSE s.y
        era == yy \div 400
        yoe == yy - era * 400
        mp  == (s.m + 9) % 12
        doy == (153 * mp + 2) \div 5 + s.d - 1
        doe == yoe * 365 + yoe \div 4 - yoe \div 100 + doy
    IN  era * 146097 + doe - 719468

\* dt.strftime('%Y-%m-%d')
strftime(dt) ==
    LET z   == dt + 719468
        era == z \div 146097
        doe == z - era * 146097
        yoe == (doe - doe \div 1460 + doe \div 36524 - doe \div 146096) \div 365
        doy == doe - (365 * yoe + yoe \div 4 - yoe \div 100)
        mp  == (5 * doy + 2) \div 153
        dd  == doy - (153 * mp + 2) \div 5 + 1
        mm  == IF mp < 10 THEN mp + 3 ELSE mp - 9
        yy  == yoe + era * 400 + (IF mm <= 2 THEN 1 ELSE 0)
    IN  Date(yy, mm, dd)

\* dt + timedelta(days=n)
PlusDays(dt, n) == dt + n

(***************************************************************************)
(* get_week_ranges(start_date, end_date)                                   *)
(***************************************************************************)
\* while current < end
WeekLoopCond(current, end) == current < end

\* week_end = min(current + timedelta(days=6), end)
WeekEnd(current, end) == Min(PlusDays(current, 6), end)

\* the pair yielded by one pass of the loop body
WeekYield(current, end) ==
    <<strftime(current), strftime(WeekEnd(current, end))>>

\* current = week_end + timedelta(days=1)
WeekNext(current, end) == PlusDays(WeekEnd(current, end), 1)

RECURSIVE WeekLoop(_, _)
WeekLoop(current, end) ==
    IF WeekLoopCond(current, end)
    THEN <<WeekYield(current, end)>> \o WeekLoop(WeekNext(current, end), end)
    ELSE <<>>

\* list(get_week_ranges(start_date, end_date))
get_week_ranges(start_date, end_date) ==
    WeekLoop(strptime(start_date), strptime(end_date))

\* The generator, one step at a time.
GenStart ==
    /\ gpc = "start"
    /\ gcur' = Some(strptime(gstart))
    /\ gpc' = "loop"
    /\ UNCHANGED <<gstart, gend, gout>>
    /\ UNCHANGED <<fvars, calls, mvars, avars>>

GenYield ==
    /\ gpc = "loop"
    /\ WeekLoopCond(Val(gcur), strptime(gend))
    /\ gout' = Append(gout, WeekYield(Val(gcur), strptime(gend)))
    /\ gcur' = Some(WeekNext(Val(gcur), strptime(gend)))
    /\ UNCHANGED <<gstart, gend, gpc>>
    /\ UNCHANGED <<fvars, calls, mvars, avars>>

GenStop ==
    /\ gpc = "loop"
    /\ ~WeekLoopCond(Val(gcur), strptime(gend))
    /\ gpc' = "done"
    /\ UNCHANGED <<gstart, gend, gcur, gout>>
    /\ UNCHANGED <<fvars, calls, mvars, avars>>

\* Start dates tried: a month start, a leap February, a year end.
SplitStarts == {Date(2023, 10, 1), Date(2024, 2, 23), Date(2023, 12, 27)}

GenIdle ==
    /\ gstart = Date(2023, 10, 1)
    /\ gend = Date(2024, 9, 30)
    /\ gcur = None
    /\ gout = <<>>
    /\ gpc = "idle"

(***************************************************************************)
(* The upstream API.  A call's feed is `size` records; page p of the feed  *)
(* is its p-th slice of `limit` records.  Records repeat (nothing makes    *)
(* them unique), so a feed holds duplicates within and across pages.       *)
(***************************************************************************)
\* payload["limit"]
Limit == 100

Record(id, amount, type) ==
    [award_id |-> id, transaction_amount |-> amount, award_type |-> type]

SampleRecords ==
    << Record("AW1", Some(100), Some("A")),
       Record("AW2", Some(50), Some("02")),
       Record("AW3", Some(-25), Some("06")),
       Record("AW1", Some(100), Some("A")),
       Record("AW4", None, Some("07")),
       Record("AW5", Some(7), Some("11")),
       Record("AW6", Some(30), Some("D")) >>

FeedRecord(f, j) == SampleRecords[((f.seed + j) % Len(SampleRecords)) + 1]

FeedPageLen(f, p) ==
    LET rest == f.size - (p - 1) * Limit
    IN  IF rest <= 0 THEN 0 ELSE Min(Limit, rest)

FeedPage(f, p) ==
    [i \in 1..FeedPageLen(f, p) |-> FeedRecord(f, (p - 1) * Limit + i)]

Body(has, res) == [has_results |-> has, results |-> res]
Response(st, b) == [status |-> st, body |-> b]
NoResponse == Response(0, Body(FALSE, None))

\* What requests.post may return for page p: the page of the feed and, from
\* a faulty upstream, an error status, a 200 body without a 'results' entry,
\* or one whose 'results' is null.
Responses(f, p) ==
    { Response(200, Body(TRUE, Some(FeedPage(f, p)))) }
    \cup (IF f.faulty
          THEN { Response(500, Body(FALSE, None)),
                 Response(200, Body(FALSE, None)),
                 Response(200, Body(TRUE, None)) }
          ELSE {})

PostEvent(p, range) == [op |-> "post", page |-> p, range |-> range]
SleepEvent(ms) == [op |-> "sleep", ms |-> ms]
CsvEvent(file, rows) == [op |-> "to_csv", file |-> file, rows |-> rows]

(***************************************************************************)
(* fetch_award_history (variant "doi", src/usaspending_doi.py:69-96) and   *)
(* fetch_personnel_spending (variant "ees", src/usaspending_ees.py:62-98). *)
(***************************************************************************)
\* Mutant: the status check is dropped, every response is read as a success.
StatusOkAlways(r) == TRUE

\* if response.status_code != 200: break
StatusOk(r) == r.status = 200

\* data['results'] raises KeyError when the entry is missing (doi);
\* data.get('results') gives None (ees)
RaisesKeyError(v, r) == v = "doi" /\ ~r.body.has_results

\* the value tested by `if not ...:` -- None or a list
ResultsOf(r) == IF r.body.has_results THEN r.body.results ELSE None

\* Python truth value of None / a list
Truthy(res) == res # None /\ Len(Val(res)) > 0

\* Mutant: a full page is taken for the last one too (<= for <).
IsLastPageOrFull(results) == Len(results) <= Limit

\* if len(data['results']) < payload["limit"]: break
IsLastPage(results) == Len(results) < Limit

\* Mutant: the page counter skips a page.
NextPageSkips(p) == p + 2

\* page += 1
NextPage(p) == p + 1

\* time.sleep(0.5) after page += 1 (ees only; doi has no sleep in its loop)
InterPageSleep(v) == IF v = "ees" THEN <<SleepEvent(500)>> ELSE <<>>

\* all_results = []; page = 1; total_entries = 0
FetchEnter(v, range, f) ==
    /\ variant' = v
    /\ fargs' = range
    /\ feed' = f
    /\ page' = 1
    /\ all_results' = <<>>
    /\ total_entries' = 0
    /\ resp' = NoResponse
    /\ pages200' = <<>>
    /\ fpc' = "request"

\* payload["page"] = page; response = requests.post(url, json=payload)
Post ==
    /\ fpc = "request"
    /\ \E r \in Responses(feed, page) :
          resp' = r
    /\ calls' = Append(calls, PostEvent(page, fargs))
    /\ fpc' = "got"
    /\ UNCHANGED <<variant, fargs, feed, page, all_results, total_entries,
                   pages200>>
    /\ UNCHANGED <<mvars, gvars, avars>>

\* requests.post raises RequestException: the except clause breaks the loop
PostRaises ==
    /\ fpc = "request"
    /\ feed.faulty
    /\ calls' = Append(calls, PostEvent(page, fargs))
    /\ resp' = NoResponse
    /\ fpc' = "ret"
    /\ UNCHANGED <<variant, fargs, feed, page, all_results, total_entries,
                   pages200>>
    /\ UNCHANGED <<mvars, gvars, avars>>

\* status_code != 200: print, break
HandleErrorStatus ==
    /\ fpc = "got"
    /\ ~StatusOk(resp)
    /\ fpc' = "ret"
    /\ UNCHANGED <<variant, fargs, feed, page, all_results, total_entries,
                   resp, pages200, calls>>
    /\ UNCHANGED <<mvars, gvars, avars>>

\* doi: data['results'] on a body without the entry: KeyError, which
\* `except requests.exceptions.RequestException` does not catch
HandleKeyError ==
    /\ fpc = "got"
    /\ StatusOk(resp)
    /\ RaisesKeyError(variant, resp)
    /\ fpc' = "raised"
    /\ UNCHANGED <<variant, fargs, feed, page, all_results, total_entries,
                   resp, pages200, calls>>
    /\ UNCHANGED <<mvars, gvars, avars>>

\* if not data['results']: break
HandleNoResults ==
    /\ fpc = "got"
    /\ StatusOk(resp)
    /\ ~RaisesKeyError(variant, resp)
    /\ ~Truthy(ResultsOf(resp))
    /\ pages200' = Append(pages200, <<>>)
    /\ fpc' = "ret"
    /\ UNCHANGED <<variant, fargs, feed, page, all_results, total_entries,
                   resp, calls>>
    /\ UNCHANGED <<mvars, gvars, avars>>

\* all_results.extend(...); short page: break
HandleLastPage ==
    /\ fpc = "got"
    /\ StatusOk(resp)
    /\ ~RaisesKeyError(variant, resp)
    /\ Truthy(ResultsOf(resp))
    /\ IsLastPage(Val(ResultsOf(resp)))
    /\ all_results' = all_results \o Val(ResultsOf(resp))
    /\ total_entries' = IF variant = "ees"
                        THEN total_entries + Len(Val(ResultsOf(resp)))
                        ELSE total_entries
    /\ pages200' = Append(pages200, Val(ResultsOf(resp)))
    /\ fpc' = "ret"
    /\ UNCHANGED <<variant, fargs, feed, page, resp, calls>>
    /\ UNCHANGED <<mvars, gvars, avars>>

\* all_results.extend(...); full page: page += 1 (ees: time.sleep(0.5))
HandleFullPage ==
    /\ fpc = "got"
    /\ StatusOk(resp)
    /\ ~RaisesKeyError(variant, resp)
    /\ Truthy(ResultsOf(resp))
    /\ ~IsLastPage(Val(ResultsOf(resp)))
    /\ all_results' = all_results \o Val(ResultsOf(resp))
    /\ total_entries' = IF variant = "ees"
                        THEN total_entries + Len(Val(ResultsOf(resp)))
                        ELSE total_entries
    /\ pages200' = Append(pages200, Val(ResultsOf(resp)))
    /\ page' = NextPage(page)
    /\ calls' = calls \o InterPageSleep(variant)
    /\ fpc' = "request"
    /\ UNCHANGED <<variant, fargs, feed, resp>>
    /\ UNCHANGED <<mvars, gvars, avars>>

FetchStep ==
    \/ Post
    \/ PostRaises
    \/ HandleErrorStatus
    \/ HandleKeyError
    \/ HandleNoResults
    \/ HandleLastPage
    \/ HandleFullPage

FetchIdle ==
    /\ variant = "doi"
    /\ fargs = <<Date(2023, 10, 1), Date(2024, 9, 30)>>
    /\ feed = [size |-> 0, seed |-> 0, faulty |-> FALSE]
    /\ page = 1
    /\ all_results = <<>>
    /\ total_entries = 0
    /\ resp = NoResponse
    /\ pages200 = <<>>
    /\ fpc = "idle"

MainIdle ==
    /\ mpc = "idle"
    /\ busyFrom = 1
    /\ week_num = 0
    /\ total_weeks = 0
    /\ data = <<>>
    /\ all_data = <<>>
    /\ chunkData = <<>>
    /\ aborted = {}

AggIdle ==
    /\ final_df = <<>>
    /\ category_summary = None

\* A standalone call of either fetcher with the FY2024 range, as both mains
\* make it, at the head of its loop.
FetchSizes == 0..(MaxFullPages * Limit + Limit - 1)

InitFetch ==
    /\ variant \in {"doi", "ees"}
    /\ fargs = <<Date(2023, 10, 1), Date(2024, 9, 30)>>
    /\ feed \in [size : FetchSizes, seed : {0}, faulty : {TRUE}]
    /\ page = 1
    /\ all_results = <<>>
    /\ total_entries = 0
    /\ resp = NoResponse
    /\ pages200 = <<>>
    /\ fpc = "request"
    /\ calls = <<>>
    /\ GenIdle /\ MainIdle /\ AggIdle

SpecFetch == InitFetch /\ [][FetchStep]_vars

(***************************************************************************)
(* process_results(data) (src/usaspending_doi.py:98-116): one row per      *)
(* record, the amount numeric, plus the display column 'Amount'.  Amounts  *)
(* of the model are whole dollars below 1000, so f"${x:,.2f}" has no       *)
(* thousands separator and no cents.                                       *)
(***************************************************************************)
FormatAmount(x) ==
    IF x # None THEN "$" \o ToString(Val(x)) \o ".00" ELSE "$0.00"

Row(r) ==
    [award_id |-> r.award_id,
     transaction_amount |-> r.transaction_amount,
     award_type |-> r.award_type,
     amount |-> FormatAmount(r.transaction_amount)]

IsNotNullAmount(r) == r.transaction_amount # None

\* Mutant: the rows without an amount are dropped (a dropna()).
process_results_dropna(d) ==
    [i \in 1..Len(SelectSeq(d, IsNotNullAmount)) |-> Row(SelectSeq(d, IsNotNullAmount)[i])]

\* pd.DataFrame(data) with the derived column; pd.DataFrame() for no data
process_results(d) == [i \in 1..Len(d) |-> Row(d[i])]

\* df.empty
DfEmpty(df) == Len(df) = 0

\* pd.concat(all_data, ignore_index=True)
RECURSIVE Concat(_)
Concat(dfs) ==
    IF dfs = <<>> THEN <<>> ELSE Concat(SubSeq(dfs, 1, Len(dfs) - 1)) \o dfs[Len(dfs)]

(***************************************************************************)
(* The category summary of main (src/usaspending_doi.py:168-179).          *)
(***************************************************************************)
\* Mutant: the direct-payment codes are filed under Grants.
award_type_map_misfiled ==
    [c \in {"A", "B", "C", "D", "02", "03", "04", "05", "06", "10", "07",
            "08", "09", "11"} |->
        CASE c \in {"A", "B", "C", "D"} -> "Contracts"
          [] c \in {"02", "03", "04", "05", "06", "10"} -> "Grants"
          [] c \in {"07", "08"} -> "Loans"
          [] c \in {"09", "11"} -> "Other"]

award_type_map ==
    [c \in {"A", "B", "C", "D", "02", "03", "04", "05", "06", "10", "07",
            "08", "09", "11"} |->
        CASE c \in {"A", "B", "C", "D"} -> "Contracts"
          [] c \in {"02", "03", "04", "05"} -> "Grants"
          [] c \in {"06", "10"} -> "Direct Payments"
          [] c \in {"07", "08"} -> "Loans"
          [] c \in {"09", "11"} -> "Other"]

\* Series.map(dict): a value that is no key of the dict maps to NaN
MapAwardType(t) ==
    IF t # None /\ Val(t) \in DOMAIN award_type_map
    THEN Some(award_type_map[Val(t)])
    ELSE None

\* final_df['Award Category'] = final_df['Award Type'].map(award_type_map)
WithCategory(df) ==
    [i \in 1..Len(df) |->
        [award_id |-> df[i].award_id,
         transaction_amount |-> df[i].transaction_amount,
         award_type |-> df[i].award_type,
         amount |-> df[i].amount,
         award_category |-> MapAwardType(df[i].award_type)]]

\* groupby(...) drops the rows whose key is NaN: the groups are the keys present
GroupKeys(df) ==
    {Val(df[i].award_category) : i \in {j \in 1..Len(df) : df[j].award_category # None}}

\* the amount a row adds to the 'sum' of group `key`: NaN amounts are skipped
RowAmount(row, key) ==
    IF row.award_category = Some(key) /\ row.transaction_amount # None
    THEN Val(row.transaction_amount)
    ELSE 0

\* 'sum' of a group, over the rows lo..hi (halved, to keep the evaluation shallow)
RECURSIVE GroupSum(_, _, _, _)
GroupSum(df, key, lo, hi) ==
    IF lo > hi THEN 0
    ELSE IF lo = hi THEN RowAmount(df[lo], key)
    ELSE LET mid == (lo + hi) \div 2
         IN  GroupSum(df, key, lo, mid) + GroupSum(df, key, mid + 1, hi)

\* 'count' of a group: the number of its non-NaN amounts
GroupCount(df, key) ==
    Cardinality({i \in 1..Len(df) : /\ df[i].award_category = Some(key)
                                    /\ df[i].transaction_amount # None})

\* final_df.groupby('Award Category')['Transaction Amount'].agg(['sum', 'count'])
CategorySummary(df) ==
    [key \in GroupKeys(df) |->
        [sum |-> GroupSum(df, key, 1, Len(df)), count |-> GroupCount(df, key)]]

(***************************************************************************)
(* main of the weekly pipeline (src/usaspending_doi.py:118-179).           *)
(***************************************************************************)
start_date == Date(2023, 10, 1)
end_date == Date(2024, 9, 30)
output_dir == "output/fy2024"

\* Mutant: the file is numbered by the count of tables saved so far.
ChunkFilenameByCount(n) == <<output_dir, "doi_awards_week_", Len(all_data), ".csv">>

\* os.path.join(output_dir, f'doi_awards_week_{week_num}.csv')
ChunkFilename(n) == <<output_dir, "doi_awards_week_", n, ".csv">>

\* os.path.join(output_dir, 'doi_awards_fy2024_complete.csv')
TotalFilename == <<output_dir, "doi_awards_fy2024_complete.csv">>

Ranges == get_week_ranges(start_date, end_date)

\* The upstream during a run: only for MaxDataWeeks consecutive weeks from
\* week busyFrom on does it hold records (a feed of one of these sizes) or
\* fail; for every other week it answers 200 with an empty list.
ChunkFeedSizes == {0, 2, Limit, Limit + 1}
BusyStarts == {1, Len(Ranges) - MaxDataWeeks + 1}

FeedsOfWeek(n) ==
    IF n >= busyFrom /\ n < busyFrom + MaxDataWeeks
    THEN [size : ChunkFeedSizes, seed : {n}, faulty : {TRUE}]
    ELSE [size : {0}, seed : {n}, faulty : {FALSE}]

\* os.makedirs; total_weeks = sum(1 for _ in get_week_ranges(...)); all_data = []
MainStart ==
    /\ mpc = "start"
    /\ total_weeks' = Len(get_week_ranges(start_date, end_date))
    /\ all_data' = <<>>
    /\ week_num' = 1
    /\ mpc' = "loop"
    /\ UNCHANGED <<busyFrom, data, chunkData, aborted, fvars, calls, gvars,
                   avars>>

\* for week_num, (week_start, week_end) in enumerate(..., 1):
\*     data = fetch_award_history(week_start, week_end)      -- the call
CallFetch ==
    /\ mpc = "loop"
    /\ week_num <= Len(Ranges)
    /\ \E f \in FeedsOfWeek(week_num) : FetchEnter("doi", Ranges[week_num], f)
    /\ mpc' = "fetching"
    /\ UNCHANGED <<busyFrom, week_num, total_weeks, data, all_data, chunkData,
                   aborted, calls, gvars, avars>>

\* return all_results
FetchReturn ==
    /\ mpc = "fetching"
    /\ fpc = "ret"
    /\ data' = all_results
    /\ chunkData' = Append(chunkData, all_results)
    /\ aborted' = IF StatusOk(resp) THEN aborted ELSE aborted \cup {week_num}
    /\ variant' = "doi"
    /\ fargs' = <<start_date, end_date>>
    /\ feed' = [size |-> 0, seed |-> 0, faulty |-> FALSE]
    /\ page' = 1
    /\ all_results' = <<>>
    /\ total_entries' = 0
    /\ resp' = NoResponse
    /\ pages200' = <<>>
    /\ fpc' = "idle"
    /\ mpc' = "process"
    /\ UNCHANGED <<busyFrom, week_num, total_weeks, all_data, calls, gvars,
                   avars>>

\* the KeyError of fetch_award_history is caught nowhere: main dies
FetchRaise ==
    /\ mpc = "fetching"
    /\ fpc = "raised"
    /\ variant' = "doi"
    /\ fargs' = <<start_date, end_date>>
    /\ feed' = [size |-> 0, seed |-> 0, faulty |-> FALSE]
    /\ page' = 1
    /\ all_results' = <<>>
    /\ total_entries' = 0
    /\ resp' = NoResponse
    /\ pages200' = <<>>
    /\ fpc' = "idle"
    /\ mpc' = "keyerror"
    /\ UNCHANGED <<busyFrom, week_num, total_weeks, data, all_data, chunkData,
                   aborted, calls, gvars, avars>>

\* if data: df = process_results(data); if not df.empty: all_data.append(df)
ProcessChunk ==
    /\ mpc = "process"
    /\ IF data # <<>> /\ ~DfEmpty(process_results(data))
       THEN /\ all_data' = Append(all_data, process_results(data))
            /\ mpc' = "write"
       ELSE /\ all_data' = all_data
            /\ mpc' = "sleep"
    /\ UNCHANGED <<busyFrom, week_num, total_weeks, data, chunkData, aborted,
                   fvars, calls, gvars, avars>>

\* df.to_csv(filename, index=False)
WriteChunk ==
    /\ mpc = "write"
    /\ calls' = Append(calls, CsvEvent(ChunkFilename(week_num),
                                       all_data[Len(all_data)]))
    /\ mpc' = "sleep"
    /\ UNCHANGED <<busyFrom, week_num, total_weeks, data, all_data, chunkData,
                   aborted, fvars, gvars, avars>>

\* to_csv raises OSError: caught nowhere
WriteChunkFails ==
    /\ mpc = "write"
    /\ mpc' = "oserror"
    /\ UNCHANGED <<busyFrom, week_num, total_weeks, data, all_data, chunkData,
                   aborted, fvars, calls, gvars, avars>>

\* time.sleep(1), then the next pass of the for loop
Sleep ==
    /\ mpc = "sleep"
    /\ calls' = Append(calls, SleepEvent(1000))
    /\ week_num' = week_num + 1
    /\ mpc' = "loop"
    /\ UNCHANGED <<busyFrom, total_weeks, data, all_data, chunkData, aborted,
                   fvars, gvars, avars>>

\* the generator is exhausted; if all_data: final_df = pd.concat(...)
Combine ==
    /\ mpc = "loop"
    /\ week_num > Len(Ranges)
    /\ IF all_data # <<>>
       THEN /\ final_df' = Concat(all_data)
            /\ mpc' = "write_total"
       ELSE /\ final_df' = final_df
            /\ mpc' = "done"
    /\ UNCHANGED <<busyFrom, week_num, total_weeks, data, all_data, chunkData,
                   aborted, fvars, calls, gvars, category_summary>>

\* final_df.to_csv(total_filename, index=False)
WriteTotal ==
    /\ mpc = "write_total"
    /\ calls' = Append(calls, CsvEvent(TotalFilename, final_df))
    /\ mpc' = "summary"
    /\ UNCHANGED <<busyFrom, week_num, total_weeks, data, all_data, chunkData,
                   aborted, fvars, gvars, avars>>

\* to_csv raises OSError: caught nowhere
WriteTotalFails ==
    /\ mpc = "write_total"
    /\ mpc' = "oserror"
    /\ UNCHANGED <<busyFrom, week_num, total_weeks, data, all_data, chunkData,
                   aborted, fvars, calls, gvars, avars>>

\* the summary statistics: the category column and its groupby
Summarize ==
    /\ mpc = "summary"
    /\ final_df' = WithCategory(final_df)
    /\ category_summary' = Some(CategorySummary(WithCategory(final_df)))
    /\ mpc' = "done"
    /\ UNCHANGED <<busyFrom, week_num, total_weeks, data, all_data, chunkData,
                   aborted, fvars, calls, gvars>>

MainStep ==
    \/ MainStart
    \/ CallFetch
    \/ FetchReturn
    \/ FetchRaise
    \/ ProcessChunk
    \/ WriteChunk
    \/ WriteChunkFails
    \/ Sleep
    \/ Combine
    \/ WriteTotal
    \/ WriteTotalFails
    \/ Summarize

Init ==
    /\ mpc = "start"
    /\ busyFrom \in BusyStarts
    /\ week_num = 0
    /\ total_weeks = 0
    /\ data = <<>>
    /\ all_data = <<>>
    /\ chunkData = <<>>
    /\ aborted = {}
    /\ calls = <<>>
    /\ FetchIdle /\ GenIdle /\ AggIdle

Next == MainStep \/ FetchStep

Spec == Init /\ [][Next]_vars

(***************************************************************************)
(* get_week_ranges on its own: every interval of 1 .. MaxSpan + 1 days     *)
(* from each of the start dates.                                           *)
(***************************************************************************)
InitSplit ==
    /\ gstart \in SplitStarts
    /\ \E span \in 0..MaxSpan :
          gend = strftime(PlusDays(strptime(gstart), span))
    /\ gcur = None
    /\ gout = <<>>
    /\ gpc = "start"
    /\ calls = <<>>
    /\ FetchIdle /\ MainIdle /\ AggIdle

SplitStep == GenStart \/ GenYield \/ GenStop

SpecSplit == InitSplit /\ [][SplitStep]_vars

(***************************************************************************)
(* The category summary on its own: main at its summary step, with every   *)
(* combined table of up to MaxRows rows.  An award type may be any code of *)
(* the request filter, a code outside it, or null; an amount may be null.  *)
(***************************************************************************)
AggTypes == {Some(c) : c \in DOMAIN award_type_map} \cup {Some("IDV_A"), None}
AggAmounts == {Some(100), Some(50), None}
AggRows == {Row(Record("AW", a, t)) : a \in AggAmounts, t \in AggTypes}

InitAgg ==
    /\ final_df \in UNION {[1..n -> AggRows] : n \in 1..MaxRows}
    /\ category_summary = None
    /\ mpc = "summary"
    /\ busyFrom = 1
    /\ week_num = Len(Ranges) + 1
    /\ total_weeks = Len(Ranges)
    /\ data = <<>>
    /\ all_data = <<final_df>>
    /\ chunkData = <<>>
    /\ aborted = {}
    /\ calls = <<CsvEvent(TotalFilename, final_df)>>
    /\ FetchIdle /\ GenIdle

SpecAgg == InitAgg /\ [][Summarize]_vars

(***************************************************************************)
(* Properties of the fetchers, checked under SpecFetch.                    *)
(***************************************************************************)
IsPost(e) == e.op = "post"

\* the page numbers requested so far, in request order
PostedPages == [i \in 1..Len(SelectSeq(calls, IsPost)) |-> SelectSeq(calls, IsPost)[i].page]

\* the concatenation of a list of result lists
RECURSIVE Flatten(_)
Flatten(lists) ==
    IF lists = <<>> THEN <<>>
    ELSE Flatten(SubSeq(lists, 1, Len(lists) - 1)) \o lists[Len(lists)]

\* every request so far was answered with status 200 and the feed's page
UpstreamServedFeed ==
    /\ Len(pages200) = Len(PostedPages)
    /\ \A i \in 1..Len(pages200) : pages200[i] = FeedPage(feed, i)

\* the call ended because its last request got an error status or raised
EndedByError == fpc \in {"ret", "raised"} /\ resp.status # 200

\* C2: when the upstream answers 200 throughout and serves N pages of 100
\* records and then one of K < 100, either fetcher returns 100*N + K records
\* after exactly the requests for pages 1 .. N+1; an empty page 1 gives an
\* empty result after one request.
C2_ReturnsWholeFeed ==
    (fpc \in {"ret", "raised"} /\ UpstreamServedFeed) =>
        LET N == feed.size \div 100
            K == feed.size % 100
        IN  /\ fpc = "ret"
            /\ Len(all_results) = 100 * N + K
            /\ all_results = [j \in 1..feed.size |-> FeedRecord(feed, j)]
            /\ PostedPages = [i \in 1..(N + 1) |-> i]
            /\ (feed.size = 0 => all_results = <<>> /\ PostedPages = <<1>>)

C2_Witness ==
    /\ fpc = "ret"
    /\ UpstreamServedFeed
    /\ variant = "doi"
    /\ feed.size = 2 * 100 + 37
    /\ Len(all_results) = 237
    /\ PostedPages = <<1, 2, 3>>

\* C3: when pages 1 .. p-1 were full status-200 pages and the request for
\* page p gets a non-200 status or raises a network exception, the fetcher
\* returns normally, after no further request, the records of pages 1 .. p-1.
C3_ErrorReturnsPagesBefore ==
    EndedByError =>
        /\ fpc = "ret"
        /\ PostedPages = [i \in 1..page |-> i]
        /\ Len(pages200) = page - 1
        /\ \A i \in 1..(page - 1) : Len(pages200[i]) = 100
        /\ all_results = Flatten(pages200)
        /\ all_results = [j \in 1..(100 * (page - 1)) |-> FeedRecord(feed, j)]

C3_Witness ==
    /\ EndedByError
    /\ page = 2
    /\ all_results = FeedPage(feed, 1)
    /\ Len(all_results) = 100

\* C4 (as claimed): in both fetchers a status-200 response whose result data
\* is empty, null or missing ends the fetch normally with the records
\* accumulated so far.
C4_NoResultsEndsFetch ==
    (fpc \in {"ret", "raised"} /\ resp.status = 200 /\ ~Truthy(ResultsOf(resp))) =>
        /\ fpc = "ret"
        /\ all_results = Flatten(pages200)

\* C5 (as claimed): in both fetchers a delay of 0.5 to 1 second lies between
\* any two consecutive page requests of one fetch call.
C5_DelayBetweenRequests ==
    \A i \in 1..(Len(calls) - 1) :
        calls[i].op = "post" =>
            /\ calls[i + 1].op = "sleep"
            /\ calls[i + 1].ms >= 500
            /\ calls[i + 1].ms <= 1000

\* C9: within one fetch call the pages requested are 1, 2, ..., m in that
\* order (first 1, then always the previous plus one, none twice), m >= 1
\* once the call has ended, and the list returned is the concatenation, in
\* request order, of the result lists of the status-200 responses.
C9_PagesInOrder ==
    /\ PostedPages = [i \in 1..Len(PostedPages) |-> i]
    /\ fpc = "request" => page = Len(PostedPages) + 1
    /\ fpc \in {"ret", "raised"} => Len(PostedPages) >= 1
    /\ fpc = "ret" => all_results = Flatten(pages200)

C9_Witness ==
    /\ fpc = "ret"
    /\ variant = "ees"
    /\ PostedPages = <<1, 2, 3>>
    /\ Len(pages200) = 3
    /\ Len(all_results) > 200

(***************************************************************************)
(* Property of get_week_ranges, checked under SpecSplit.                   *)
(***************************************************************************)
\* C1 (as claimed): for start <= end the ranges generated begin at start, end
\* at end, each starts the day after the one before ends, and each spans at
\* most 7 days, so that every day of [start, end] lies in exactly one range.
C1_RangesCoverInterval ==
    gpc = "done" =>
        /\ gout # <<>>
        /\ gout[1][1] = gstart
        /\ gout[Len(gout)][2] = gend
        /\ \A i \in 1..Len(gout) :
              /\ strptime(gout[i][1]) <= strptime(gout[i][2])
              /\ strptime(gout[i][2]) - strptime(gout[i][1]) + 1 <= 7
        /\ \A i \in 1..(Len(gout) - 1) :
              strptime(gout[i + 1][1]) = strptime(gout[i][2]) + 1

(***************************************************************************)
(* Properties of the weekly pipeline, checked under Spec.                  *)
(***************************************************************************)
IsCsv(e) == e.op = "to_csv"
IsTotalCsv(e) == e.op = "to_csv" /\ e.file = TotalFilename
IsFirstPost(e) == e.op = "post" /\ e.page = 1

\* how many times the file `name` has been written
Written(name) ==
    Cardinality({i \in 1..Len(calls) : IsCsv(calls[i]) /\ calls[i].file = name})

\* the positions in the log of the writes of the combined file
TotalWrites == {i \in 1..Len(calls) : IsTotalCsv(calls[i])}

\* the chunks whose pass of the loop is over, its write (if any) included
Settled ==
    IF mpc \in {"process", "write"} THEN Len(chunkData) - 1 ELSE Len(chunkData)

\* the date ranges fetch_award_history was called with, in call order
FetchedRanges ==
    [i \in 1..Len(SelectSeq(calls, IsFirstPost)) |-> SelectSeq(calls, IsFirstPost)[i].range]

\* a table has one row per record, in the records' order
SameRecords(rows, recs) ==
    /\ Len(rows) = Len(recs)
    /\ \A k \in 1..Len(recs) :
          /\ rows[k].award_id = recs[k].award_id
          /\ rows[k].transaction_amount = recs[k].transaction_amount
          /\ rows[k].award_type = recs[k].award_type

RECURSIVE SumLen(_)
SumLen(lists) ==
    IF lists = <<>> THEN 0
    ELSE SumLen(SubSeq(lists, 1, Len(lists) - 1)) + Len(lists[Len(lists)])

\* C6 (as claimed): a run that finishes without a filesystem error has
\* written exactly one chunk file for every chunk of the splitter, chunks
\* without records included, and exactly one combined file, after the last
\* chunk was fetched and written.
C6_OneFilePerChunk ==
    mpc = "done" =>
        /\ \A n \in 1..Len(Ranges) : Written(ChunkFilename(n)) = 1
        /\ Written(TotalFilename) = 1
        /\ \A i \in TotalWrites : \A j \in (i + 1)..Len(calls) :
              calls[j].op \notin {"post", "to_csv"}

\* C6 (amended): without a filesystem error, exactly one chunk file is
\* written for every chunk whose fetch returned a record, under that chunk's
\* index among all chunks of the splitter, and none for a chunk whose fetch
\* returned nothing; the combined file is written at most once, only after
\* the last chunk was fetched and its file written, and a run that reaches
\* the end of main has written it exactly once if some chunk returned
\* records and not at all otherwise.
C6_OneFilePerNonEmptyChunk ==
    mpc # "oserror" =>
        /\ \A n \in 1..Len(Ranges) :
              Written(ChunkFilename(n)) =
                  IF n <= Settled /\ chunkData[n] # <<>> THEN 1 ELSE 0
        /\ \A i \in 1..Len(calls) : IsCsv(calls[i]) =>
              \/ calls[i].file = TotalFilename
              \/ \E n \in 1..Len(Ranges) : calls[i].file = ChunkFilename(n)
        /\ Cardinality(TotalWrites) <= 1
        /\ \A i \in TotalWrites :
              /\ Len(chunkData) = Len(Ranges)
              /\ Settled = Len(Ranges)
              /\ \A j \in (i + 1)..Len(calls) : calls[j].op \notin {"post", "to_csv"}
        /\ mpc = "done" =>
              /\ Len(chunkData) = Len(Ranges)
              /\ Cardinality(TotalWrites) =
                    IF \E n \in 1..Len(chunkData) : chunkData[n] # <<>> THEN 1 ELSE 0

C6_Witness ==
    /\ mpc = "done"
    /\ chunkData[1] = <<>>
    /\ chunkData[2] # <<>>
    /\ Written(ChunkFilename(1)) = 0
    /\ Written(ChunkFilename(2)) = 1
    /\ Written(TotalFilename) = 1

\* C7 (as claimed): an error status or transport failure in the fetch of
\* chunk i ends only that fetch: the records gathered for chunk i are kept
\* and written, and over the whole run every chunk of the splitter is
\* fetched exactly once, in increasing order.
C7_EveryChunkStillFetched ==
    (aborted # {} /\ mpc \in {"done", "keyerror"}) =>
        /\ FetchedRanges = Ranges
        /\ \A i \in aborted :
              chunkData[i] # <<>> => Written(ChunkFilename(i)) = 1

\* C10: every chunk file holds exactly the records fetched for its chunk,
\* and the combined table is the concatenation, in chunk order, of the
\* per-chunk tables: one row per fetched record, none dropped, duplicates
\* kept, its row count the sum of the chunks' record counts.
C10_TablesHoldFetchedRecords ==
    \A i \in 1..Len(calls) : IsCsv(calls[i]) =>
        IF calls[i].file = TotalFilename
        THEN /\ SameRecords(calls[i].rows, Flatten(chunkData))
             /\ Len(calls[i].rows) = SumLen(chunkData)
        ELSE \E n \in 1..Len(chunkData) :
                /\ calls[i].file = ChunkFilename(n)
                /\ SameRecords(calls[i].rows, chunkData[n])

C10_Witness ==
    /\ mpc = "done"
    /\ Len(all_data) = 2
    /\ \E i \in TotalWrites :
          /\ Len(calls[i].rows) = Len(all_data[1]) + Len(all_data[2])
          /\ Len(calls[i].rows) > 100
          /\ \E a, b \in 1..5 : a < b /\ calls[i].rows[a] = calls[i].rows[b]
          /\ \E k \in 1..7 : calls[i].rows[k].transaction_amount = None

(***************************************************************************)
(* Properties of the category summary, checked under SpecAgg.              *)
(***************************************************************************)
\* the lookup table as the claim gives it
ClaimedCategory(code) ==
    CASE code \in {"A", "B", "C", "D"} -> Some("Contracts")
      [] code \in {"02", "03", "04", "05"} -> Some("Grants")
      [] code \in {"06", "10"} -> Some("Direct Payments")
      [] code \in {"07", "08"} -> Some("Loans")
      [] code \in {"09", "11"} -> Some("Other")
      [] OTHER -> None

Categories == {"Contracts", "Grants", "Direct Payments", "Loans", "Other"}

\* the rows of the table whose award type the table files under `cat`
RowsOf(df, cat) ==
    {i \in 1..Len(df) : /\ df[i].award_type # None
                        /\ ClaimedCategory(Val(df[i].award_type)) = Some(cat)}

RECURSIVE TotalAmount(_, _)
TotalAmount(df, rows) ==
    IF rows = {} THEN 0
    ELSE LET i == CHOOSE j \in rows : TRUE
         IN  (IF df[i].transaction_amount # None
              THEN Val(df[i].transaction_amount) ELSE 0)
             + TotalAmount(df, rows \ {i})

WithAmount(df, rows) == {i \in rows : df[i].transaction_amount # None}

CountOf(summary, cat) ==
    IF cat \in DOMAIN summary THEN summary[cat].count ELSE 0

SumOfCounts(summary) ==
    CountOf(summary, "Contracts") + CountOf(summary, "Grants")
    + CountOf(summary, "Direct Payments") + CountOf(summary, "Loans")
    + CountOf(summary, "Other")

\* C8 (as claimed): the summary has one row per category that occurs, its
\* sum the total amount and its count the number of records of the category;
\* every record is counted in exactly one row, so the counts add up to the
\* number of records.
C8_EveryRecordCounted ==
    category_summary # None =>
        LET summary == Val(category_summary)
        IN  /\ DOMAIN summary = {c \in Categories : RowsOf(final_df, c) # {}}
            /\ \A c \in DOMAIN summary :
                  /\ summary[c].sum = TotalAmount(final_df, RowsOf(final_df, c))
                  /\ summary[c].count = Cardinality(RowsOf(final_df, c))
            /\ SumOfCounts(summary) = Len(final_df)

\* C8 (amended): the summary has one row per category that occurs among the
\* records whose award type is a key of the table; its sum is the total of
\* the category's non-null amounts and its count the number of the
\* category's records with a non-null amount.  A record whose award type is
\* no key of the table (or null) is in no row, so the counts add up to the
\* number of records with a table code and a non-null amount.  For
\* {A: 100, 02: 50}: Contracts sum=100 count=1, Grants sum=50 count=1.
C8_CategorySummary ==
    category_summary # None =>
        LET summary == Val(category_summary)
            keyed == UNION {RowsOf(final_df, c) : c \in Categories}
        IN  /\ DOMAIN summary = {c \in Categories : RowsOf(final_df, c) # {}}
            /\ \A c \in DOMAIN summary :
                  /\ summary[c].sum = TotalAmount(final_df, RowsOf(final_df, c))
                  /\ summary[c].count =
                        Cardinality(WithAmount(final_df, RowsOf(final_df, c)))
            /\ SumOfCounts(summary) = Cardinality(WithAmount(final_df, keyed))
            /\ ( /\ Len(final_df) = 2
                 /\ final_df[1].award_type = Some("A")
                 /\ final_df[1].transaction_amount = Some(100)
                 /\ final_df[2].award_type = Some("02")
                 /\ final_df[2].transaction_amount = Some(50) )
               => /\ DOMAIN summary = {"Contracts", "Grants"}
                  /\ summary["Contracts"] = [sum |-> 100, count |-> 1]
                  /\ summary["Grants"] = [sum |-> 50, count |-> 1]

C8_Witness ==
    /\ category_summary # None
    /\ Len(final_df) = 2
    /\ final_df[1].award_type = Some("06")
    /\ final_df[1].transaction_amount = Some(100)
    /\ final_df[2].award_type = Some("10")
    /\ final_df[2].transaction_amount = None
    /\ Val(category_summary)["Direct Payments"] = [sum |-> 100, count |-> 1]

=============================================================================
